---- MODULE Spec2Model ----
(***************************************************************************)
(* Model of examples/language/llama/benchmark.py: main() as a sequential   *)
(* state machine.  One action per statement group of main(); calls into    *)
(* the training framework are opaque steps that may raise.                 *)
(***************************************************************************)
EXTENDS Integers, Naturals, Sequences, FiniteSets, TLC

VARIABLES pc, argv, args, world_size, launched, coordinator, plugin, booster,
          dataset, dataloader, model, optimizer, evaluator, loop, step, now,
          events, summary, exit_code, error

vars == <<pc, argv, args, world_size, launched, coordinator, plugin, booster,
          dataset, dataloader, model, optimizer, evaluator, loop, step, now,
          events, summary, exit_code, error>>

\* ---------------------------------------------------------------- bounds
MaxBatch == 2
MaxSteps == 3
MaxLen == 2
MaxPP == 2
MaxWorld == 2
MaxDt == 2

\* the smallest and the largest value of each size a run is drawn from
BatchSizes == {1, MaxBatch}
SeqLengths == {1, MaxLen}
PipelineSizes == {1, MaxPP}
WorldSizes == {1, MaxWorld}
\* wall-clock ticks one step's compute may take
StepTicks == {1, MaxDt}

\* ------------------------------------------------------------- constants
\* exit status of argparse's parser.error()
ArgparseErrorExit == 2
\* exit status of an uncaught exception
UncaughtExit == 1

\* choices=[...] of the --plugin argument
PluginChoices == {"gemini", "gemini_auto", "fsdp", "fsdp_cpu", "3d", "3d_cpu"}

\* values a user may type after --plugin (one of them is not a choice)
PluginInputs == PluginChoices \cup {"ddp"}

ArgSpace ==
    [plugin : PluginInputs,
     batch_size : BatchSizes,
     num_steps : 0..MaxSteps,
     ignore_steps : 0..MaxSteps,
     max_length : SeqLengths,
     pp : PipelineSizes]

NoArgs ==
    [plugin |-> "", batch_size |-> 0, num_steps |-> 0, ignore_steps |-> 0,
     max_length |-> 0, pp |-> 0]

NoPlugin == [kind |-> "None", name |-> "", hasDp |-> FALSE, dp_size |-> 0]

NoDataset == [made |-> FALSE, num_samples |-> 0, max_length |-> 0]

NoDataloader == [made |-> FALSE, len |-> 0, batch_size |-> 0, max_length |-> 0]

NoEvaluator ==
    [made |-> FALSE, ignore_steps |-> 0, dp_world_size |-> 0, disable |-> FALSE,
     start |-> 0, duration |-> 0, num_tokens |-> 0, num_retained |-> 0]

Init ==
    /\ pc = "parse_args"
    /\ argv \in ArgSpace
    /\ world_size \in WorldSizes
    /\ args = NoArgs
    /\ launched = FALSE
    /\ coordinator = FALSE
    /\ plugin = NoPlugin
    /\ booster = FALSE
    /\ dataset = NoDataset
    /\ dataloader = NoDataloader
    /\ model = FALSE
    /\ optimizer = FALSE
    /\ evaluator = NoEvaluator
    /\ loop = "none"
    /\ step = 0
    /\ now = 0
    /\ events = <<>>
    /\ summary = <<>>
    /\ exit_code = -1
    /\ error = "none"

\* ------------------------------------------------------- pure helpers

\* parser.parse_args(): a --plugin value outside choices is rejected
\* variant: the argument declared without choices
ArgparseAcceptsAny(a) == TRUE

ArgparseAccepts(a) == a.plugin \in PluginChoices

\* the if/elif chain on args.plugin, ending in raise ValueError ("Unknown");
\* hasDp/d are the dp_size attribute the framework's plugin object carries
\* variant: the fsdp_cpu branch tests a misspelt name
PluginForTypo(name, hasDp, d) ==
    CASE name \in {"gemini", "gemini_auto"} ->
           [kind |-> "Gemini", name |-> name, hasDp |-> hasDp, dp_size |-> d]
      [] name \in {"fsdp", "fsdp-cpu"} ->
           [kind |-> "FSDP", name |-> name, hasDp |-> hasDp, dp_size |-> d]
      [] name \in {"3d", "3d_cpu"} ->
           [kind |-> "Hybrid", name |-> name, hasDp |-> hasDp, dp_size |-> d]
      [] OTHER ->
           [kind |-> "Unknown", name |-> name, hasDp |-> FALSE, dp_size |-> 0]

PluginFor(name, hasDp, d) ==
    CASE name = "gemini" ->
           [kind |-> "Gemini", name |-> name, hasDp |-> hasDp, dp_size |-> d]
      [] name = "gemini_auto" ->
           [kind |-> "Gemini", name |-> name, hasDp |-> hasDp, dp_size |-> d]
      [] name = "fsdp" ->
           [kind |-> "FSDP", name |-> name, hasDp |-> hasDp, dp_size |-> d]
      [] name = "fsdp_cpu" ->
           [kind |-> "FSDP", name |-> name, hasDp |-> hasDp, dp_size |-> d]
      [] name = "3d" ->
           [kind |-> "Hybrid", name |-> name, hasDp |-> hasDp, dp_size |-> d]
      [] name = "3d_cpu" ->
           [kind |-> "Hybrid", name |-> name, hasDp |-> hasDp, dp_size |-> d]
      [] OTHER ->
           [kind |-> "Unknown", name |-> name, hasDp |-> FALSE, dp_size |-> 0]

\* dp_size = getattr(plugin, "dp_size", coordinator.world_size)
\* variant: the world size used whatever the plugin says
DpSizeNoGetattr(p, w) == w

DpSize(p, w) == IF p.hasDp THEN p.dp_size ELSE w

\* num_samples=args.batch_size * args.num_steps * dp_size
\* variant: the data-parallel factor left out
NumSamplesNoDp(a, dp) == a.batch_size * a.num_steps

NumSamples(a, dp) == a.batch_size * a.num_steps * dp

\* plugin.prepare_dataloader(dataset, batch_size, shuffle=True, drop_last=True):
\* each data-parallel replica gets an equal shard, cut into whole batches
DataloaderLen(ds, bs, replicas) == (ds.num_samples \div replicas) \div bs

\* shape of batch["input_ids"] as the dataloader yields it
BatchShape(dl) == <<dl.batch_size, dl.max_length>>

\* torch.empty(args.batch_size, args.max_length)
\* variant: a one-token placeholder
PlaceholderShapeOneToken(a) == <<a.batch_size, 1>>

PlaceholderShape(a) == <<a.batch_size, a.max_length>>

\* arguments of PerformanceEvaluator(...) that the bookkeeping reads
\* variant: ignore_steps not passed on (the evaluator's default of 0)
EvaluatorArgsNoWarmup(a, dp) == [ignore_steps |-> 0, dp_world_size |-> dp]

EvaluatorArgs(a, dp) == [ignore_steps |-> a.ignore_steps, dp_world_size |-> dp]

\* the argument of performance_evaluator.on_step_start(step)
\* variant: steps counted from 1
StepArgOneBased(s) == s + 1

StepArg(s) == s

\* isinstance(plugin, HybridParallelPlugin) and args.pp > 1
\* variant: the pp > 1 test left out
UsePipelineAnyPP(p, a) == p.kind = "Hybrid"

UsePipeline(p, a) == p.kind = "Hybrid" /\ a.pp > 1

\* statement order of one iteration of each loop body
\* variant: on_step_end called before optimizer.zero_grad()
StepOrderEndEarly(l) ==
    IF l = "pipeline"
    THEN <<"on_step_start", "execute_pipeline", "optimizer_step",
           "on_step_end", "zero_grad", "prof_step">>
    ELSE <<"on_step_start", "forward", "backward", "optimizer_step",
           "on_step_end", "zero_grad", "prof_step">>

StepOrder(l) ==
    IF l = "pipeline"
    THEN <<"on_step_start", "execute_pipeline", "optimizer_step",
           "zero_grad", "on_step_end", "prof_step">>
    ELSE <<"on_step_start", "forward", "backward", "optimizer_step",
           "zero_grad", "on_step_end", "prof_step">>

After(l, cur) ==
    LET o == StepOrder(l)
        i == CHOOSE j \in 1..Len(o) : o[j] = cur
    IN o[i + 1]

\* where control goes when a framework call raises: main() has no handler,
\* the exception leaves main() and the interpreter exits
\* variant: the failed statement is run again
RetrySameStatement(cur) == cur

FailurePc(cur) == "exit"

\* ---- PerformanceEvaluator bookkeeping
EvalOnStepStart(e, s, t) ==
    IF s < e.ignore_steps
    THEN [e EXCEPT !.disable = TRUE]
    ELSE [e EXCEPT !.disable = FALSE, !.start = t]

EvalOnStepEnd(e, shape, t) ==
    IF e.disable
    THEN e
    ELSE [e EXCEPT !.duration = @ + (t - e.start),
                   !.num_tokens = @ + shape[1] * shape[2],
                   !.num_retained = @ + 1]

\* tokens/sec is tokens / time; undefined with an empty retained window
EvalOnFitEnd(e) ==
    IF e.num_retained = 0 \/ e.duration = 0
    THEN [defined |-> FALSE, tokens |-> 0, time |-> 0, steps |-> 0]
    ELSE [defined |-> TRUE, tokens |-> e.num_tokens * e.dp_world_size,
          time |-> e.duration, steps |-> e.num_retained]

Event(name) == <<name, step, now>>

\* ------------------------------------------------------------ actions

ParseArgs ==
    /\ pc = "parse_args"
    /\ IF ArgparseAccepts(argv)
       THEN /\ args' = argv
            /\ pc' = "launch"
            /\ UNCHANGED <<exit_code, error>>
       ELSE /\ pc' = "exit"
            /\ exit_code' = ArgparseErrorExit
            /\ error' = "argparse"
            /\ UNCHANGED args
    /\ UNCHANGED <<argv, world_size, launched, coordinator, plugin, booster,
                   dataset, dataloader, model, optimizer, evaluator, loop,
                   step, now, events, summary>>

\* colossalai.launch_from_torch(); coordinator = DistCoordinator()
Launch ==
    /\ pc = "launch"
    /\ launched' = TRUE
    /\ coordinator' = TRUE
    /\ pc' = "select_plugin"
    /\ UNCHANGED <<argv, args, world_size, plugin, booster, dataset,
                   dataloader, model, optimizer, evaluator, loop, step, now,
                   events, summary, exit_code, error>>

SelectPlugin ==
    /\ pc = "select_plugin"
    /\ \E hasDp \in BOOLEAN :
       \E d \in {1, world_size} :
       \E ok \in BOOLEAN :
          LET p == PluginFor(args.plugin, hasDp, IF hasDp THEN d ELSE 0)
          IN IF p.kind = "Unknown"
             THEN /\ pc' = FailurePc(pc)
                  /\ exit_code' = UncaughtExit
                  /\ error' = "ValueError"
                  /\ UNCHANGED plugin
             ELSE IF ok
             THEN /\ plugin' = p
                  /\ pc' = "booster"
                  /\ UNCHANGED <<exit_code, error>>
             ELSE /\ pc' = FailurePc(pc)
                  /\ exit_code' = UncaughtExit
                  /\ error' = "framework"
                  /\ UNCHANGED plugin
    /\ UNCHANGED <<argv, args, world_size, launched, coordinator, booster,
                   dataset, dataloader, model, optimizer, evaluator, loop,
                   step, now, events, summary>>

\* booster = Booster(plugin=plugin)
CreateBooster ==
    /\ pc = "booster"
    /\ \E ok \in BOOLEAN :
          IF ok
          THEN /\ booster' = TRUE
               /\ pc' = "dataset"
               /\ UNCHANGED <<exit_code, error>>
          ELSE /\ pc' = FailurePc(pc)
               /\ exit_code' = UncaughtExit
               /\ error' = "framework"
               /\ UNCHANGED booster
    /\ UNCHANGED <<argv, args, world_size, launched, coordinator, plugin,
                   dataset, dataloader, model, optimizer, evaluator, loop,
                   step, now, events, summary>>

CreateDataset ==
    /\ pc = "dataset"
    /\ dataset' = [made |-> TRUE,
                   num_samples |-> NumSamples(args, DpSize(plugin, world_size)),
                   max_length |-> args.max_length]
    /\ pc' = "dataloader"
    /\ UNCHANGED <<argv, args, world_size, launched, coordinator, plugin,
                   booster, dataloader, model, optimizer, evaluator, loop,
                   step, now, events, summary, exit_code, error>>

PrepareDataloader ==
    /\ pc = "dataloader"
    /\ dataloader' = [made |-> TRUE,
                      len |-> DataloaderLen(dataset, args.batch_size,
                                            DpSize(plugin, world_size)),
                      batch_size |-> args.batch_size,
                      max_length |-> dataset.max_length]
    /\ pc' = "model"
    /\ UNCHANGED <<argv, args, world_size, launched, coordinator, plugin,
                   booster, dataset, model, optimizer, evaluator, loop,
                   step, now, events, summary, exit_code, error>>

\* AutoModelForCausalLM.from_config(...) under the init context
CreateModel ==
    /\ pc = "model"
    /\ \E ok \in BOOLEAN :
          IF ok
          THEN /\ model' = TRUE
               /\ pc' = "evaluator"
               /\ UNCHANGED <<exit_code, error>>
          ELSE /\ pc' = FailurePc(pc)
               /\ exit_code' = UncaughtExit
               /\ error' = "framework"
               /\ UNCHANGED model
    /\ UNCHANGED <<argv, args, world_size, launched, coordinator, plugin,
                   booster, dataset, dataloader, optimizer, evaluator, loop,
                   step, now, events, summary>>

\* print "Model params: ..." and construct the PerformanceEvaluator
CreateEvaluator ==
    /\ pc = "evaluator"
    /\ events' = Append(events, Event("print_model_params"))
    /\ LET ea == EvaluatorArgs(args, DpSize(plugin, world_size))
       IN evaluator' = [NoEvaluator EXCEPT !.made = TRUE,
                                          !.ignore_steps = ea.ignore_steps,
                                          !.dp_world_size = ea.dp_world_size]
    /\ pc' = "boost"
    /\ UNCHANGED <<argv, args, world_size, launched, coordinator, plugin,
                   booster, dataset, dataloader, model, optimizer, loop,
                   step, now, summary, exit_code, error>>

\* optimizer = HybridAdam(...); booster.boost(model, optimizer, dataloader)
Boost ==
    /\ pc = "boost"
    /\ \E ok \in BOOLEAN :
          IF ok
          THEN /\ optimizer' = TRUE
               /\ pc' = "enter_loop"
               /\ UNCHANGED <<exit_code, error>>
          ELSE /\ pc' = FailurePc(pc)
               /\ exit_code' = UncaughtExit
               /\ error' = "framework"
               /\ UNCHANGED optimizer
    /\ UNCHANGED <<argv, args, world_size, launched, coordinator, plugin,
                   booster, dataset, dataloader, model, evaluator, loop,
                   step, now, events, summary>>

\* the branch on the plugin type and the first test of the for loop
EnterLoop ==
    /\ pc = "enter_loop"
    /\ LET l == IF UsePipeline(plugin, args) THEN "pipeline" ELSE "plain"
       IN /\ loop' = l
          /\ pc' = IF 0 < dataloader.len THEN Head(StepOrder(l)) ELSE "on_fit_end"
    /\ step' = 0
    /\ UNCHANGED <<argv, args, world_size, launched, coordinator, plugin,
                   booster, dataset, dataloader, model, optimizer, evaluator,
                   now, events, summary, exit_code, error>>

\* a framework call of the loop body at statement `name`, taking dt ticks of
\* wall-clock time (the step's time is charged to its first compute call)
FrameworkCall(name, dt) ==
    /\ pc = name
    /\ \E ok \in BOOLEAN :
          IF ok
          THEN /\ events' = Append(events, <<name, step, now + dt>>)
               /\ now' = now + dt
               /\ pc' = After(loop, pc)
               /\ UNCHANGED <<exit_code, error>>
          ELSE /\ pc' = FailurePc(pc)
               /\ exit_code' = UncaughtExit
               /\ error' = "framework"
               /\ UNCHANGED <<events, now>>
    /\ UNCHANGED <<argv, args, world_size, launched, coordinator, plugin,
                   booster, dataset, dataloader, model, optimizer, evaluator,
                   loop, step, summary>>

\* performance_evaluator.on_step_start(step)
OnStepStart ==
    /\ pc = "on_step_start"
    /\ events' = Append(events, Event("on_step_start"))
    /\ evaluator' = EvalOnStepStart(evaluator, StepArg(step), now)
    /\ pc' = After(loop, pc)
    /\ UNCHANGED <<argv, args, world_size, launched, coordinator, plugin,
                   booster, dataset, dataloader, model, optimizer, loop, step,
                   now, summary, exit_code, error>>

\* booster.execute_pipeline(data_iter, model, ...)
ExecutePipeline == \E dt \in StepTicks : FrameworkCall("execute_pipeline", dt)

\* outputs = model(**batch)
Forward == \E dt \in StepTicks : FrameworkCall("forward", dt)

\* booster.backward(loss, optimizer)
Backward == FrameworkCall("backward", 0)

\* optimizer.step()
OptimizerStep == FrameworkCall("optimizer_step", 0)

\* optimizer.zero_grad()
ZeroGrad ==
    /\ pc = "zero_grad"
    /\ events' = Append(events, Event("zero_grad"))
    /\ pc' = After(loop, pc)
    /\ UNCHANGED <<argv, args, world_size, launched, coordinator, plugin,
                   booster, dataset, dataloader, model, optimizer, evaluator,
                   loop, step, now, summary, exit_code, error>>

\* performance_evaluator.on_step_end(input_ids=...)
OnStepEnd ==
    /\ pc = "on_step_end"
    /\ events' = Append(events, Event("on_step_end"))
    /\ LET shape == IF loop = "pipeline"
                    THEN PlaceholderShape(args)
                    ELSE BatchShape(dataloader)
       IN evaluator' = EvalOnStepEnd(evaluator, shape, now)
    /\ pc' = After(loop, pc)
    /\ UNCHANGED <<argv, args, world_size, launched, coordinator, plugin,
                   booster, dataset, dataloader, model, optimizer, loop, step,
                   now, summary, exit_code, error>>

\* prof.step() and the loop's next iteration test
ProfStep ==
    /\ pc = "prof_step"
    /\ events' = Append(events, Event("prof_step"))
    /\ step' = step + 1
    /\ pc' = IF step + 1 < dataloader.len
             THEN Head(StepOrder(loop))
             ELSE "on_fit_end"
    /\ UNCHANGED <<argv, args, world_size, launched, coordinator, plugin,
                   booster, dataset, dataloader, model, optimizer, evaluator,
                   loop, now, summary, exit_code, error>>

\* performance_evaluator.on_fit_end()
OnFitEnd ==
    /\ pc = "on_fit_end"
    /\ events' = Append(events, Event("on_fit_end"))
    /\ summary' = Append(summary, EvalOnFitEnd(evaluator))
    /\ pc' = "final_print"
    /\ UNCHANGED <<argv, args, world_size, launched, coordinator, plugin,
                   booster, dataset, dataloader, model, optimizer, evaluator,
                   loop, step, now, exit_code, error>>

\* the last print; main() returns and the interpreter exits 0
Finish ==
    /\ pc = "final_print"
    /\ pc' = "done"
    /\ exit_code' = 0
    /\ UNCHANGED <<argv, args, world_size, launched, coordinator, plugin,
                   booster, dataset, dataloader, model, optimizer, evaluator,
                   loop, step, now, events, summary, error>>

Next == ParseArgs \/ Launch \/ SelectPlugin \/ CreateBooster \/ CreateDataset
        \/ PrepareDataloader \/ CreateModel \/ CreateEvaluator \/ Boost
        \/ EnterLoop \/ OnStepStart \/ ExecutePipeline \/ Forward \/ Backward
        \/ OptimizerStep \/ ZeroGrad \/ OnStepEnd \/ ProfStep \/ OnFitEnd
        \/ Finish

Spec == Init /\ [][Next]_vars

\* ------------------------------------------------- reading the event log
EvName(e) == e[1]
EvStep(e) == e[2]
EvTime(e) == e[3]

Named(name) == {i \in DOMAIN events : EvName(events[i]) = name}

IsBoundary(e) == EvName(e) \in {"on_step_start", "on_step_end"}

IsLoopEvent(e) == EvName(e) \notin {"print_model_params", "on_fit_end"}

IsAbstractEvent(e) == IsLoopEvent(e) /\ EvName(e) # "backward"

Boundaries == SelectSeq(events, IsBoundary)

ComputeNames ==
    {"forward", "backward", "execute_pipeline", "optimizer_step", "zero_grad"}

ChainNames ==
    {"on_step_start", "forward", "backward", "execute_pipeline",
     "optimizer_step", "zero_grad"}

PipelineBody == {"execute_pipeline", "optimizer_step", "zero_grad"}

PlainBody == {"forward", "backward", "optimizer_step", "zero_grad"}

\* index of the on_step_start that opened the step closed at index i
StartOf(i) ==
    CHOOSE j \in 1..i :
        /\ EvName(events[j]) = "on_step_start"
        /\ EvStep(events[j]) = EvStep(events[i])

\* elapsed wall time of the step closed at index i
Measure(i) == EvTime(events[i]) - EvTime(events[StartOf(i)])

\* closed steps whose index is past the warmup
Retained == {i \in Named("on_step_end") : EvStep(events[i]) >= args.ignore_steps}

RECURSIVE SumMeasures(_)
SumMeasures(S) ==
    IF S = {} THEN 0
    ELSE LET i == CHOOSE x \in S : TRUE IN Measure(i) + SumMeasures(S \ {i})

Finished == pc \in {"final_print", "done"}

SupportedPlugins == {"gemini", "gemini_auto", "fsdp", "fsdp_cpu", "3d", "3d_cpu"}

ExpectedKind(name) ==
    CASE name \in {"gemini", "gemini_auto"} -> "Gemini"
      [] name \in {"fsdp", "fsdp_cpu"} -> "FSDP"
      [] name \in {"3d", "3d_cpu"} -> "Hybrid"
      [] OTHER -> "None"

\* C1: a --plugin value outside the supported set ends the run in a fatal
\* error with a non-zero exit status, raised before anything is allocated:
\* no distributed launch, plugin, booster, dataset, dataloader, model,
\* optimizer or evaluator exists and no step was started.
C1_UnknownPluginFatalBeforeAllocation ==
    (argv.plugin \notin SupportedPlugins /\ pc # "parse_args") =>
        /\ pc = "exit"
        /\ error # "none"
        /\ exit_code > 0
        /\ ~launched /\ ~coordinator
        /\ plugin = NoPlugin
        /\ ~booster
        /\ ~dataset.made /\ ~dataloader.made
        /\ ~model /\ ~optimizer /\ ~evaluator.made
        /\ events = <<>> /\ summary = <<>>

C1_Witness == argv.plugin = "ddp" /\ pc = "exit" /\ exit_code = 2

\* C2: for every supported --plugin value the selection never raises the
\* unknown-plugin error and binds a plugin object of the matching type
\* (Gemini, FSDP, hybrid-parallel) for exactly that name before the booster
\* is created.
C2_SupportedPluginBound ==
    /\ (argv.plugin \in SupportedPlugins) => error # "ValueError"
    /\ (booster \/ pc \notin {"parse_args", "launch", "select_plugin", "exit"}) =>
          /\ argv.plugin \in SupportedPlugins
          /\ plugin # NoPlugin
          /\ plugin.name = argv.plugin
          /\ plugin.kind = ExpectedKind(argv.plugin)

C2_Witness == booster /\ args.plugin = "fsdp_cpu" /\ plugin.kind = "FSDP"

\* C3: the synthetic dataset holds exactly batch_size * num_steps *
\* data_parallel_size samples, the data-parallel size being the plugin's
\* dp_size when it has one and the world size otherwise.
C3_DatasetLength ==
    dataset.made =>
        dataset.num_samples =
            args.batch_size * args.num_steps
                * (IF plugin.hasDp THEN plugin.dp_size ELSE world_size)

C3_Witness ==
    /\ dataset.made
    /\ plugin.hasDp /\ plugin.dp_size = 1 /\ world_size = 2
    /\ dataset.num_samples = 6

\* C4: the aggregated elapsed time is the sum of the measurements of the
\* steps with index >= ignore_steps only; after the run every step index
\* in [ignore_steps, num_steps) contributed exactly once.
C4_WarmupExcluded ==
    LET r == Retained
        total == SumMeasures(r)
    IN evaluator.made =>
          /\ evaluator.duration = total
          /\ evaluator.num_retained = Cardinality(r)
          /\ Finished =>
                /\ {EvStep(events[i]) : i \in r}
                      = {k \in 0..(args.num_steps - 1) : k >= args.ignore_steps}
                /\ Cardinality(r) =
                      (IF args.ignore_steps <= args.num_steps
                       THEN args.num_steps - args.ignore_steps ELSE 0)
                /\ summary[1].defined => summary[1].time = total

C4_Witness ==
    /\ pc = "done"
    /\ args.num_steps = 3 /\ args.ignore_steps = 1
    /\ evaluator.num_retained = 2
    /\ evaluator.duration < now

\* C5: the reported throughput is strictly positive and finite whenever a
\* post-warmup step was recorded, and undefined when ignore_steps >=
\* num_steps (retained time and retained step count both zero).
C5_ThroughputDefinedness ==
    Finished =>
        /\ (Retained # {}) =>
              /\ summary[1].defined
              /\ summary[1].tokens > 0
              /\ summary[1].time > 0
        /\ (args.ignore_steps >= args.num_steps) =>
              /\ ~summary[1].defined
              /\ evaluator.duration = 0
              /\ evaluator.num_retained = 0

C5_Witness ==
    /\ pc = "done"
    /\ args.num_steps = 2 /\ args.ignore_steps = 2
    /\ ~summary[1].defined

\* C6: with a supported plugin and no framework failure the run makes
\* exactly num_steps steps, indices 0..num_steps-1 in increasing order, one
\* per dataloader batch; the parameter count is printed before the first
\* step; the summary is emitted exactly once, after the last step, and the
\* run then ends normally.
C6_FullRun ==
    /\ Len(summary) <= 1
    /\ (~ENABLED Next) => pc \in {"done", "exit"}
    /\ (pc = "exit") => error # "none"
    /\ (pc = "done") =>
          /\ error = "none" /\ exit_code = 0
          /\ dataloader.len = args.num_steps
          /\ Cardinality(Named("on_step_start")) = args.num_steps
          /\ Cardinality(Named("on_step_end")) = args.num_steps
          /\ \A i \in 1..Len(Boundaries) :
                EvStep(Boundaries[i]) = (i - 1) \div 2
          /\ Cardinality(Named("print_model_params")) = 1
          /\ \A i \in Named("print_model_params") :
                \A j \in Named("on_step_start") : i < j
          /\ Named("on_fit_end") = {Len(events)}
          /\ Len(summary) = 1

C6_Witness ==
    pc = "done" /\ args.num_steps = 3 /\ Len(summary) = 1 /\ world_size = 2

\* C7: in each step of either loop the start timestamp is taken before all
\* of the step's compute and the end timestamp after all of it; start and
\* end events strictly alternate, beginning with a start.
C7_TimestampsBracketCompute ==
    LET bs == Boundaries
        body == IF loop = "pipeline" THEN PipelineBody ELSE PlainBody
    IN /\ \A i \in 1..Len(bs) :
             /\ EvName(bs[i]) =
                   (IF i % 2 = 1 THEN "on_step_start" ELSE "on_step_end")
             /\ (i % 2 = 0) => EvStep(bs[i]) = EvStep(bs[i - 1])
       \* every compute event continues a chain of compute events of its own
       \* step that begins at an on_step_start and crosses no on_step_end
       /\ \A i \in DOMAIN events :
             /\ (EvName(events[i]) \in ComputeNames) =>
                   /\ i > 1
                   /\ EvName(events[i - 1]) \in ChainNames
                   /\ EvStep(events[i - 1]) = EvStep(events[i])
                   /\ EvTime(events[i - 1]) <= EvTime(events[i])
             \* an on_step_end closes a chain holding all of the step's compute
             /\ (EvName(events[i]) = "on_step_end") =>
                   /\ i > 1
                   /\ EvName(events[i - 1]) \in ComputeNames
                   /\ EvStep(events[i - 1]) = EvStep(events[i])
                   /\ EvTime(events[i - 1]) <= EvTime(events[i])
                   /\ {EvName(events[j]) : j \in (StartOf(i) + 1)..(i - 1)} = body

C7_Witness ==
    /\ pc = "prof_step" /\ step = 1 /\ loop = "pipeline"
    /\ Cardinality(Named("on_step_end")) = 2

\* C8: there is no local recovery: once a framework call has failed the
\* run is over with a non-zero status, nothing further can run (no later
\* step, no re-run of the failed one) and no summary is emitted.
C8_NoRecovery ==
    (error # "none") =>
        /\ pc = "exit"
        /\ exit_code > 0
        /\ ~ENABLED Next
        /\ summary = <<>>
        /\ Named("on_fit_end") = {}

C8_Witness ==
    /\ error = "framework" /\ pc = "exit"
    /\ step = 1 /\ Cardinality(Named("on_step_start")) = 2
    /\ Cardinality(Named("on_step_end")) = 1

\* C9: tokens/sec is (batch_size * max_length * retained step count) over
\* the retained time, scaled by the data-parallel size; every retained
\* step feeds batch_size * max_length tokens in both loop branches.
C9_TokensPerSecond ==
    LET n == Cardinality(Retained)
    IN /\ evaluator.made =>
             evaluator.num_tokens = args.batch_size * args.max_length * n
       /\ (Finished /\ summary[1].defined) =>
             /\ summary[1].tokens =
                   args.batch_size * args.max_length * n
                       * (IF plugin.hasDp THEN plugin.dp_size ELSE world_size)
             /\ summary[1].time = evaluator.duration
             /\ summary[1].steps = n

C9_Witness ==
    /\ pc = "done" /\ loop = "pipeline"
    /\ args.max_length = 2 /\ args.batch_size = 2
    /\ plugin.hasDp /\ plugin.dp_size = 2
    /\ summary[1].defined /\ summary[1].steps = 2

\* C10: the pipeline loop is taken exactly for --plugin 3d / 3d_cpu with
\* pp > 1; both loops log the same per-step sequence on_step_start,
\* compute, optimizer step, gradient zeroing, on_step_end, profiler step,
\* once each per step, for dataloader-length many steps.
StepPattern ==
    <<"on_step_start", "compute", "optimizer_step", "zero_grad",
      "on_step_end", "prof_step">>

Abstract(e) ==
    IF EvName(e) \in {"forward", "execute_pipeline"} THEN "compute" ELSE EvName(e)

AbstractLog == SelectSeq(events, IsAbstractEvent)

C10_LoopsEquivalent ==
    LET log == AbstractLog
    IN /\ (loop # "none") =>
             ((loop = "pipeline") <=>
                 (args.plugin \in {"3d", "3d_cpu"} /\ args.pp > 1))
       /\ \A i \in 1..Len(log) :
             /\ Abstract(log[i]) = StepPattern[((i - 1) % 6) + 1]
             /\ EvStep(log[i]) = (i - 1) \div 6
       /\ \A i \in DOMAIN events :
             /\ EvName(events[i]) = "backward" =>
                   (loop = "plain" /\ EvName(events[i - 1]) = "forward")
             /\ EvName(events[i]) = "execute_pipeline" => loop = "pipeline"
       /\ Finished => Len(log) = 6 * dataloader.len

C10_Witness ==
    /\ pc = "done" /\ loop = "plain"
    /\ plugin.kind = "Hybrid" /\ args.pp = 1
    /\ Len(events) = 16
====
